---- MODULE Spec2Model ----
(***************************************************************************)
(* QueryDog sample schema: the query load generator                        *)
(* (src/sampleschema/query_generator.py) and the ecommerce data generator  *)
(* (src/sampleschema/data_generator.py).                                   *)
(*                                                                         *)
(* Spec     the dispatch loop of run_load_generator: select an operation,  *)
(*          call the backend, record the outcome, pace, repeat; a          *)
(*          KeyboardInterrupt may be raised at any statement.              *)
(* SpecGen  the record generators of both programs, applied to random      *)
(*          draws taken from bounded sets.                                 *)
(* SpecSummary  the same dispatch loop, started after WarmOps operations,  *)
(*          so that it runs through the operation that prints a summary.   *)
(*                                                                         *)
(* Time is in integer units: duration_ms in milliseconds, interval and     *)
(* sleep_time in microseconds; money is in integer cents; random.random()  *)
(* and random.uniform() draws are integers in permille / basis points.     *)
(***************************************************************************)
EXTENDS Integers, Sequences, FiniteSets, TLC

VARIABLES
    pc,               \* position of run_load_generator
    client_open,      \* the backend connection exists and is not closed
    op_roll,          \* random.random() of the current iteration, permille
    op_type,          \* kind of the operation of the current iteration
    op_name,          \* name of its template
    success,          \* outcome returned by execute_random_*
    duration_ms,      \* latency returned by execute_random_*
    total_ops,
    successful_ops,
    failed_ops,
    total_duration,
    op_stats,         \* per kind: count, success, errors, total_ms
    query_stats,      \* per name: count, total_ms, errors (created on first use)
    interval,         \* base_interval * random.uniform(0.5, 1.5), microseconds
    sleep_time,       \* argument of time.sleep, microseconds
    dispatched,       \* history: number of operations selected so far
    name_success,     \* history: per name, outcomes recorded with success = True
    overran,          \* history: an earlier iteration's latency exceeded its interval
    stop_at,          \* history: the position at which KeyboardInterrupt was raised
    events,           \* history: summaries printed, final statistics printed, client closed
    reported,         \* history: the counters printed by the latest summary
    exit_code,        \* exit status of the process, None while it runs
    existing_customers,  \* data generator: entries registered by generate_customer
    existing_sessions,   \* data generator: entries registered by generate_page_view
    next_uuid,           \* the value uuid.uuid4() returns to the next identity that is registered
    rec,                 \* the record just generated, until it has been inserted
    run_pc,              \* position of run_generator
    run_client,          \* its backend connection: "none", "open" or "closed"
    iteration,           \* its iteration counter, 0 while it pre-populates
    operations,          \* the (table, count) pairs it still has to insert
    batch,               \* the batch generated by insert_*, until client.insert returns
    run_closes,          \* history: calls of client.close() in run_generator
    run_exit,            \* exit status of the data generator, None while it runs
    rows,                \* rows of the table that the mutations are observed on
    mutation,            \* history: the mutation dispatched last
    mutations            \* history: number of mutations dispatched

loadVars == <<pc, client_open, op_type, op_name, success, duration_ms, total_ops,
              successful_ops, failed_ops, total_duration, op_stats, query_stats,
              interval, sleep_time, dispatched, name_success, overran, stop_at,
              op_roll, events, reported, exit_code>>

genVars == <<existing_customers, existing_sessions, next_uuid, rec>>

runVars == <<run_pc, run_client, iteration, operations, batch, run_closes, run_exit>>

mutVars == <<rows, mutation, mutations>>

vars == <<loadVars, genVars, runVars, mutVars>>

----------------------------------------------------------------------------
(* Bounds *)

\* operations dispatched in one run
MaxOps == 2

\* templates of each catalog that the model draws from
MaxTemplates == 1

\* iterations of the data generator's continuous loop
MaxIterations == 1

\* update and delete mutations executed on the observed table
MaxMutations == 1

\* Python's None in a date, amount, identity or status field
None == -1

----------------------------------------------------------------------------
(* Helpers *)

Max(a, b) == IF a >= b THEN a ELSE b

Min(a, b) == IF a <= b THEN a ELSE b

----------------------------------------------------------------------------
(* Operation catalog *)

TARGET_QPS == 15

SELECT_QUERY_FUNCTIONS ==
    << "query_orders_by_status", "query_top_customers", "query_hourly_sales",
       "query_cart_abandonment_rate", "query_page_views_by_type",
       "query_revenue_by_channel", "query_customer_segments",
       "query_orders_by_country", "query_product_category_performance",
       "query_payment_method_analysis", "query_session_analysis",
       "query_browser_performance", "query_abandoned_cart_value",
       "query_customer_loyalty_distribution", "query_recent_orders",
       "query_conversion_funnel", "query_geographic_distribution",
       "query_search_analysis", "query_shipping_analysis", "query_daily_metrics" >>

\* names under which execute_random_insert reports: f'insert_{table_name}'
INSERT_FUNCTIONS ==
    << "insert_customers", "insert_orders", "insert_page_views", "insert_shopping_cart" >>

UPDATE_FUNCTIONS ==
    << "generate_update_customer_status", "generate_update_customer_loyalty",
       "generate_update_order_status", "generate_update_cart_status" >>

DELETE_FUNCTIONS ==
    << "generate_delete_old_page_views", "generate_delete_expired_carts",
       "generate_delete_cancelled_orders", "generate_delete_inactive_customers" >>

OpTypes == {"SELECT", "INSERT", "UPDATE", "DELETE"}

Catalog(t) ==
    CASE t = "SELECT" -> SELECT_QUERY_FUNCTIONS
      [] t = "INSERT" -> INSERT_FUNCTIONS
      [] t = "UPDATE" -> UPDATE_FUNCTIONS
      [] t = "DELETE" -> DELETE_FUNCTIONS

\* random.choice over a catalog, restricted to its first MaxTemplates entries
Templates(t) == { Catalog(t)[i] : i \in 1..Min(MaxTemplates, Len(Catalog(t))) }

AllNames == UNION { Templates(t) : t \in OpTypes }

\* op_roll = random.random(), in permille; the values around each threshold
Rolls == {0, 399, 400, 799, 800, 899, 900, 999}

\* a branch whose thresholds belong to the lower kind
OpTypeOfRollInclusive(roll) ==
    IF roll <= 400 THEN "SELECT"
    ELSE IF roll <= 800 THEN "INSERT"
    ELSE IF roll <= 900 THEN "UPDATE"
    ELSE "DELETE"

\* if op_roll < 0.4 / elif op_roll < 0.8 / elif op_roll < 0.9 / else
OpTypeOfRoll(roll) ==
    IF roll < 400 THEN "SELECT"
    ELSE IF roll < 800 THEN "INSERT"
    ELSE IF roll < 900 THEN "UPDATE"
    ELSE "DELETE"

----------------------------------------------------------------------------
(* Pacing *)

\* latencies the backend call may take, in milliseconds
Latencies == {20, 100, 120}

\* random.uniform(0.5, 1.5), in permille: the two ends of the range
Jitters == {500, 1500}

\* base_interval * random.uniform(0.5, 1.5) with base_interval = 1.0 / TARGET_QPS
JitteredInterval(j) == (1000000 * j) \div (1000 * TARGET_QPS)

\* the pacing without the latency compensation
SleepTimeNoLatency(iv, d) == iv

\* the pacing without the clamp at zero
SleepTimeUnclamped(iv, d) == iv - d * 1000

\* a pacing that skips the sleep while the loop is behind schedule
SleepTimeCatchUp(iv, d) == IF overran THEN 0 ELSE Max(0, iv - d * 1000)

\* sleep_time = max(0, sleep_time - (duration_ms / 1000))
SleepTime(iv, d) == Max(0, iv - d * 1000)

----------------------------------------------------------------------------
(* run_load_generator *)

ZeroStats == [count |-> 0, success |-> 0, errors |-> 0, total_ms |-> 0]

\* the summary is printed after every SUMMARY_EVERY-th operation
SUMMARY_EVERY == 100

\* a summary printed one operation early
SummaryDueEarly(n) == (n + 1) % SUMMARY_EVERY = 0

\* if total_ops % 100 == 0
SummaryDue(n) == n % SUMMARY_EVERY = 0

\* operations already run when the model starts inside the loop: the model then
\* runs through the SUMMARY_EVERY-th operation and one more
WarmOps == SUMMARY_EVERY + 1 - MaxOps

\* the model dispatches MaxOps operations from where it starts
MayDispatch(n) == n < MaxOps \/ (WarmOps <= n /\ n < WarmOps + MaxOps)

NoSummary == [total_ops |-> 0, successful_ops |-> 0, failed_ops |-> 0]

InitLoad ==
    /\ pc = "connect"
    /\ client_open = FALSE
    /\ op_type = "NONE"
    /\ op_name = "NONE"
    /\ success = FALSE
    /\ duration_ms = 0
    /\ total_ops = 0
    /\ successful_ops = 0
    /\ failed_ops = 0
    /\ total_duration = 0
    /\ op_stats = [t \in OpTypes |-> ZeroStats]
    /\ query_stats = << >>
    /\ interval = 0
    /\ sleep_time = 0
    /\ dispatched = 0
    /\ name_success = [n \in AllNames |-> 0]
    /\ overran = FALSE
    /\ stop_at = "none"
    /\ op_roll = 0
    /\ events = << >>
    /\ reported = NoSummary
    /\ exit_code = None

statVars == <<total_ops, successful_ops, failed_ops, total_duration, op_stats,
              query_stats, name_success>>

\* client = get_client() returns
Connect ==
    /\ pc = "connect"
    /\ pc' = "select"
    /\ client_open' = TRUE
    /\ UNCHANGED <<op_type, op_name, success, duration_ms, statVars, interval,
                   sleep_time, dispatched, overran, stop_at>>
    /\ UNCHANGED <<op_roll, events, reported, exit_code>>
    /\ UNCHANGED genVars
    /\ UNCHANGED <<runVars, mutVars>>

\* client = get_client() raises: outside the try block, the exception leaves
\* run_load_generator and the interpreter exits with status 1
ConnectFail ==
    /\ pc = "connect"
    /\ pc' = "fatal"
    /\ exit_code' = 1
    /\ UNCHANGED <<client_open, op_type, op_name, success, duration_ms, statVars,
                   interval, sleep_time, dispatched, overran, stop_at>>
    /\ UNCHANGED <<op_roll, events, reported>>
    /\ UNCHANGED genVars
    /\ UNCHANGED <<runVars, mutVars>>

\* a loop that selects and sends the next operation while one is in flight
SelectOpPipelined ==
    /\ pc \in {"select", "execute"}
    /\ MayDispatch(dispatched)
    /\ \E roll \in Rolls :
         /\ op_roll' = roll
         /\ op_type' = OpTypeOfRoll(roll)
         /\ \E n \in Templates(OpTypeOfRoll(roll)) : op_name' = n
    /\ dispatched' = dispatched + 1
    /\ pc' = "execute"
    /\ UNCHANGED <<client_open, success, duration_ms, statVars, interval,
                   sleep_time, overran, stop_at>>
    /\ UNCHANGED <<events, reported, exit_code>>
    /\ UNCHANGED genVars
    /\ UNCHANGED <<runVars, mutVars>>

\* op_roll, the branch on it, and random.choice of the template in
\* execute_random_*; the backend call is then in flight
SelectOp ==
    /\ pc = "select"
    /\ MayDispatch(dispatched)
    /\ \E roll \in Rolls :
         /\ op_roll' = roll
         /\ op_type' = OpTypeOfRoll(roll)
         /\ \E n \in Templates(OpTypeOfRoll(roll)) : op_name' = n
    /\ dispatched' = dispatched + 1
    /\ pc' = "execute"
    /\ UNCHANGED <<client_open, success, duration_ms, statVars, interval,
                   sleep_time, overran, stop_at>>
    /\ UNCHANGED <<events, reported, exit_code>>
    /\ UNCHANGED genVars
    /\ UNCHANGED <<runVars, mutVars>>

\* the backend call returns; execute_random_* returns (True, name, duration_ms, ...)
ExecuteOk ==
    /\ pc = "execute"
    /\ \E d \in Latencies : duration_ms' = d
    /\ success' = TRUE
    /\ pc' = "record"
    /\ UNCHANGED <<client_open, op_type, op_name, statVars, interval, sleep_time,
                   dispatched, overran, stop_at>>
    /\ UNCHANGED <<op_roll, events, reported, exit_code>>
    /\ UNCHANGED genVars
    /\ UNCHANGED <<runVars, mutVars>>

\* the backend call raises an Exception; execute_random_* catches it and
\* returns (False, name, duration_ms, str(e), kind)
ExecuteFail ==
    /\ pc = "execute"
    /\ \E d \in Latencies : duration_ms' = d
    /\ success' = FALSE
    /\ pc' = "record"
    /\ UNCHANGED <<client_open, op_type, op_name, statVars, interval, sleep_time,
                   dispatched, overran, stop_at>>
    /\ UNCHANGED <<op_roll, events, reported, exit_code>>
    /\ UNCHANGED genVars
    /\ UNCHANGED <<runVars, mutVars>>

\* a record step that adds the latency to the kind's total on success only
RecordPrefixLatencyOnSuccess(k) ==
    LET b(c) == IF c THEN 1 ELSE 0
        qs5 == IF k >= 5 /\ op_name \notin DOMAIN query_stats
               THEN (op_name :> [count |-> 0, total_ms |-> 0, errors |-> 0]) @@ query_stats
               ELSE query_stats
    IN  /\ total_ops' = total_ops + b(k >= 1)
        /\ total_duration' = total_duration + (IF k >= 2 THEN duration_ms ELSE 0)
        /\ op_stats' = [op_stats EXCEPT ![op_type] =
                          [count    |-> @.count + b(k >= 3),
                           total_ms |-> @.total_ms + (IF k >= 4 /\ success THEN duration_ms ELSE 0),
                           success  |-> @.success + b(k >= 7 /\ success),
                           errors   |-> @.errors + b(k >= 7 /\ ~success)]]
        /\ successful_ops' = successful_ops + b(k >= 6 /\ success)
        /\ failed_ops' = failed_ops + b(k >= 6 /\ ~success)
        /\ query_stats' =
             IF k >= 8
             THEN [qs5 EXCEPT ![op_name] =
                     [count    |-> @.count + b(success),
                      total_ms |-> @.total_ms + (IF k >= 9 /\ success THEN duration_ms ELSE 0),
                      errors   |-> @.errors + b(~success)]]
             ELSE qs5
        /\ name_success' = IF k >= 8 /\ success
                           THEN [name_success EXCEPT ![op_name] = @ + 1]
                           ELSE name_success

\* The first k statements of the record step (lines 999-1017):
\*   1 total_ops += 1                2 total_duration += duration_ms
\*   3 op_stats[..]['count'] += 1    4 op_stats[..]['total_ms'] += duration_ms
\*   5 query_stats[op_name] created when absent
\*   6 successful_ops += 1               | failed_ops += 1
\*   7 op_stats[..]['success'] += 1      | op_stats[..]['errors'] += 1
\*   8 query_stats[..]['count'] += 1     | query_stats[..]['errors'] += 1
\*   9 query_stats[..]['total_ms'] += duration_ms   (success only)
RecordPrefix(k) ==
    LET b(c) == IF c THEN 1 ELSE 0
        qs5 == IF k >= 5 /\ op_name \notin DOMAIN query_stats
               THEN (op_name :> [count |-> 0, total_ms |-> 0, errors |-> 0]) @@ query_stats
               ELSE query_stats
    IN  /\ total_ops' = total_ops + b(k >= 1)
        /\ total_duration' = total_duration + (IF k >= 2 THEN duration_ms ELSE 0)
        /\ op_stats' = [op_stats EXCEPT ![op_type] =
                          [count    |-> @.count + b(k >= 3),
                           total_ms |-> @.total_ms + (IF k >= 4 THEN duration_ms ELSE 0),
                           success  |-> @.success + b(k >= 7 /\ success),
                           errors   |-> @.errors + b(k >= 7 /\ ~success)]]
        /\ successful_ops' = successful_ops + b(k >= 6 /\ success)
        /\ failed_ops' = failed_ops + b(k >= 6 /\ ~success)
        /\ query_stats' =
             IF k >= 8
             THEN [qs5 EXCEPT ![op_name] =
                     [count    |-> @.count + b(success),
                      total_ms |-> @.total_ms + (IF k >= 9 /\ success THEN duration_ms ELSE 0),
                      errors   |-> @.errors + b(~success)]]
             ELSE qs5
        /\ name_success' = IF k >= 8 /\ success
                           THEN [name_success EXCEPT ![op_name] = @ + 1]
                           ELSE name_success

\* lines 1019-1028: the summary with the counters as they are after the record
\* step
PrintSummary ==
    IF SummaryDue(total_ops')
    THEN /\ events' = Append(events, "summary")
         /\ reported' = [total_ops |-> total_ops',
                         successful_ops |-> successful_ops',
                         failed_ops |-> failed_ops']
    ELSE UNCHANGED <<events, reported>>

\* a record step that sends a failed operation back to the backend
RecordRetry ==
    /\ pc = "record"
    /\ IF success
       THEN RecordPrefix(9) /\ PrintSummary /\ pc' = "pace"
       ELSE UNCHANGED <<statVars, events, reported>> /\ pc' = "execute"
    /\ UNCHANGED <<client_open, op_type, op_name, success, duration_ms, interval,
                   sleep_time, dispatched, overran, stop_at>>
    /\ UNCHANGED <<op_roll, exit_code>>
    /\ UNCHANGED genVars
    /\ UNCHANGED <<runVars, mutVars>>

\* lines 999-1028 run to completion: the counters, then the summary when due
Record ==
    /\ pc = "record"
    /\ RecordPrefix(9)
    /\ PrintSummary
    /\ pc' = "pace"
    /\ UNCHANGED <<client_open, op_type, op_name, success, duration_ms, interval,
                   sleep_time, dispatched, overran, stop_at>>
    /\ UNCHANGED <<op_roll, exit_code>>
    /\ UNCHANGED genVars
    /\ UNCHANGED <<runVars, mutVars>>

\* lines 1031-1034: the jitter draw and the latency compensation
Pace ==
    /\ pc = "pace"
    /\ \E j \in Jitters :
         /\ interval' = JitteredInterval(j)
         /\ sleep_time' = SleepTime(JitteredInterval(j), duration_ms)
    /\ pc' = "sleep"
    /\ UNCHANGED <<client_open, op_type, op_name, success, duration_ms, statVars,
                   dispatched, overran, stop_at>>
    /\ UNCHANGED <<op_roll, events, reported, exit_code>>
    /\ UNCHANGED genVars
    /\ UNCHANGED <<runVars, mutVars>>

\* time.sleep(sleep_time) returns; back to the top of while True
Sleep ==
    /\ pc = "sleep"
    /\ pc' = "select"
    /\ overran' = (overran \/ duration_ms * 1000 > interval)
    /\ UNCHANGED <<client_open, op_type, op_name, success, duration_ms, statVars,
                   interval, sleep_time, dispatched, stop_at>>
    /\ UNCHANGED <<op_roll, events, reported, exit_code>>
    /\ UNCHANGED genVars
    /\ UNCHANGED <<runVars, mutVars>>

LoopPcs == {"select", "execute", "record", "pace", "sleep"}

\* a shutdown that closes the client before it prints the final statistics
ShutdownCloseFirst ==
    /\ events' = events \o << "close", "final" >>
    /\ client_open' = FALSE
    /\ exit_code' = 0

\* lines 1037-1066 after a KeyboardInterrupt: the except clause prints the final
\* statistics, the finally clause closes the client, run_load_generator returns
\* and the interpreter exits with status 0
Shutdown ==
    /\ events' = events \o << "final", "close" >>
    /\ client_open' = FALSE
    /\ exit_code' = 0

\* the kinds listed in the Operation Type Breakdown: if stats['count'] > 0
FinalKinds == { t \in OpTypes : op_stats[t].count > 0 }

\* the names listed in the Query/Operation Breakdown: if stats['count'] > 0
FinalNames == { n \in DOMAIN query_stats : query_stats[n].count > 0 }

\* a shutdown that first records the operation that is in flight
InterruptDrain ==
    /\ pc \in LoopPcs
    /\ stop_at' = pc
    /\ pc' = "done"
    /\ IF pc = "record"
       THEN \E k \in 0..9 : RecordPrefix(k)
       ELSE IF pc = "execute" THEN RecordPrefix(9) ELSE UNCHANGED statVars
    /\ Shutdown
    /\ UNCHANGED <<op_type, op_name, success, duration_ms, interval, sleep_time,
                   dispatched, overran>>
    /\ UNCHANGED <<op_roll, reported>>
    /\ UNCHANGED genVars
    /\ UNCHANGED <<runVars, mutVars>>

\* KeyboardInterrupt is raised asynchronously inside the try block: at the top
\* of the loop, inside the backend call (execute_random_* catches Exception
\* only), between two statements of the record step, or inside time.sleep.
\* In the record step it is raised after k of the nine counter statements, or
\* after all of them and before the summary.
Interrupt ==
    /\ pc \in LoopPcs
    /\ stop_at' = pc
    /\ pc' = "done"
    /\ IF pc = "record"
       THEN \E k \in 0..9 : RecordPrefix(k)
       ELSE UNCHANGED statVars
    /\ Shutdown
    /\ UNCHANGED <<op_type, op_name, success, duration_ms, interval, sleep_time,
                   dispatched, overran>>
    /\ UNCHANGED <<op_roll, reported>>
    /\ UNCHANGED genVars
    /\ UNCHANGED <<runVars, mutVars>>

----------------------------------------------------------------------------
(* Record generators *)

\* entries either pool may hold
MaxPool == 1

\* truth value of a Python dict, str, int or None field as modelled here
Truthy(x) == x # None /\ x # 0

\* a uuid.uuid4() that is never registered in a pool; uuid4 values are taken to
\* be distinct, the registered ones are numbered from 1 by next_uuid
AnyUuid == 0

ORDER_STATUSES ==
    << "pending", "confirmed", "processing", "shipped", "delivered", "cancelled",
       "refunded" >>

CART_STATUSES == << "active", "abandoned", "converted", "expired" >>

PAGE_TYPES ==
    << "home", "category", "product", "search", "cart", "checkout", "account",
       "blog", "about", "contact" >>

SeqToSet(q) == { q[i] : i \in 1..Len(q) }

\* random.randint(lo, hi): the two ends of the range
RandIntEnds(lo, hi) == {lo, hi}

\* the draws of a conditional expression: taken only when its condition holds
DrawIf(cond, draws) == IF cond THEN draws ELSE {0}

\* round(n / d, 0) for n >= 0, d > 0: to nearest, ties to even
RoundHalfEven(n, d) ==
    LET q == n \div d
        r == n % d
    IN  IF 2 * r < d THEN q
        ELSE IF 2 * r > d THEN q + 1
        ELSE IF q % 2 = 0 THEN q ELSE q + 1

\* round(random.uniform(9.99, 499.99), 2), in cents
Prices == {999, 10000}

\* num_items = random.randint(1, 5) (orders) or random.randint(1, 6) (carts):
\* the model draws one or two items
ItemCounts == {1, 2}

\* the chosen products with quantities = random.randint(1, 3) each
ItemLists ==
    UNION { [1..n -> [price : Prices, quantity : RandIntEnds(1, 3)]] : n \in ItemCounts }

\* subtotal = sum(p['price'] * q for p, q in zip(selected_products, quantities))
RECURSIVE Subtotal(_)
Subtotal(items) ==
    IF items = << >> THEN 0
    ELSE items[1].price * items[1].quantity + Subtotal(Tail(items))

\* random.uniform(0.05, 0.12), in basis points
TaxRates == {500, 1000, 1200}

\* round(subtotal * tax_rate, 2)
TaxAmount(subtotal, rate) == RoundHalfEven(subtotal * rate, 10000)

\* round(random.uniform(0, limit), 2) if subtotal < 50 else 0
ShippingCost(subtotal, draw) == IF subtotal < 5000 THEN draw ELSE 0

\* round(subtotal * random.uniform(0, limit), 2) if random.random() > threshold else 0
DiscountAmount(subtotal, roll, threshold, frac) ==
    IF roll > threshold THEN RoundHalfEven(subtotal * frac, 10000) ELSE 0

\* a total that adds the discount
TotalAmountDiscountAdded(subtotal, tax, shipping, discount) ==
    subtotal + tax + shipping + discount

\* round(subtotal + tax_amount + shipping_cost - discount_amount, 2)
TotalAmount(subtotal, tax, shipping, discount) ==
    subtotal + tax + shipping - discount

\* fake.date_time_between(start_date='-7d', end_date='now'), in days; 7 is now
OrderDates == {0, 7}

\* a shipped date set for shipped orders only
ShippedDateShippedOnly(order_status, order_date, days) ==
    IF order_status = "shipped" THEN order_date + days ELSE None

\* data generator: shipped_date = order_date + timedelta(days=random.randint(1, 3))
\* if order_status in ['shipped', 'delivered'], else None
ShippedDate(order_status, order_date, days) ==
    IF order_status \in {"shipped", "delivered"} THEN order_date + days ELSE None

\* data generator: delivered_date = shipped_date + timedelta(days=random.randint(1, 5))
\* if order_status == 'delivered', else None
DeliveredDate(order_status, shipped_date, days) ==
    IF order_status = "delivered" THEN shipped_date + days ELSE None

\* load generator: order_date + timedelta(days=random.randint(1, 3))
\* if order_status in ['shipped', 'delivered'] else None
InsertShippedDate(order_status, order_date, days) ==
    IF order_status \in {"shipped", "delivered"} THEN order_date + days ELSE None

\* load generator: order_date + timedelta(days=random.randint(4, 8))
\* if order_status == 'delivered' else None
InsertDeliveredDate(order_status, order_date, days) ==
    IF order_status = "delivered" THEN order_date + days ELSE None

\* a delivery offset whose range starts inside the shipping range
InsertDeliveredDaysOverlapping == RandIntEnds(3, 8)

\* load generator: random.randint(4, 8)
InsertDeliveredDays == RandIntEnds(4, 8)

NoRecord == [table |-> "none"]

InitGen ==
    /\ existing_customers = << >>
    /\ existing_sessions = << >>
    /\ next_uuid = 1
    /\ rec = NoRecord

\* the current time in days since the earliest registration date, two years ago
TwoYears == 730

\* a date range that ignores its start
DateTimeBetweenFromEpoch(start_date, end_date) == {0, end_date}

\* fake.date_time_between(start_date, end_date): both ends and the middle
DateTimeBetween(start_date, end_date) ==
    {start_date, (start_date + end_date) \div 2, end_date}

\* data generator, generate_customer: the record and the entry appended to
\* existing_customers; dates in days
GenerateCustomer ==
    /\ rec.table = "none"
    /\ Len(existing_customers) < MaxPool
    /\ \E registration_date \in DateTimeBetween(0, TwoYears) :
       \E last_login \in DateTimeBetween(registration_date, TwoYears) :
         /\ rec' = [table |-> "customers", by |-> "generate_customer",
                    customer_id |-> next_uuid,
                    registration_date |-> registration_date,
                    last_login_date |-> last_login]
         /\ existing_customers' =
              Append(existing_customers, [id |-> next_uuid])
    /\ next_uuid' = next_uuid + 1
    /\ UNCHANGED existing_sessions
    /\ UNCHANGED loadVars
    /\ UNCHANGED <<runVars, mutVars>>

\* load generator, generate_insert_customer: a new uuid4, a registration date
\* within the last two years and datetime.now() as last_login_date
GenerateInsertCustomer ==
    /\ rec.table = "none"
    /\ \E registration_date \in DateTimeBetween(0, TwoYears) :
         rec' = [table |-> "customers", by |-> "generate_insert_customer",
                 customer_id |-> AnyUuid,
                 registration_date |-> registration_date,
                 last_login_date |-> TwoYears]
    /\ UNCHANGED <<existing_customers, existing_sessions, next_uuid>>
    /\ UNCHANGED loadVars
    /\ UNCHANGED <<runVars, mutVars>>

\* the stored order fields and the tax_rate local
OrderRecord(by, customer, order_status, order_date, shipped_date, delivered_date, items, rate, ship_draw, roll, frac) ==
    LET subtotal == Subtotal(items)
        tax_amount == TaxAmount(subtotal, rate)
        shipping_cost == ShippingCost(subtotal, ship_draw)
        discount_amount == DiscountAmount(subtotal, roll, 700, frac)
    IN  [table |-> "orders", by |-> by,
         customer_id |-> customer.id,
         order_status |-> order_status,
         order_date |-> order_date,
         shipped_date |-> shipped_date,
         delivered_date |-> delivered_date,
         items |-> items,
         tax_rate |-> rate,
         subtotal |-> subtotal,
         tax_amount |-> tax_amount,
         shipping_cost |-> shipping_cost,
         discount_amount |-> discount_amount,
         total_amount |-> TotalAmount(subtotal, tax_amount, shipping_cost, discount_amount)]

\* random.choice(seq) for a non-empty sequence
RandomChoice(seq) == SeqToSet(seq)

\* an order customer that is always newly made up
OrderCustomersFresh == { [id |-> AnyUuid] }

\* generate_order(customer=None): random.choice(existing_customers) when the
\* list is non-empty, otherwise minimal customer info with a fresh id
OrderCustomers ==
    IF existing_customers # << >>
    THEN RandomChoice(existing_customers)
    ELSE { [id |-> AnyUuid] }

\* an order generator that registers the customer it makes up
GenerateOrderRegistering ==
    /\ rec.table = "none"
    /\ \E customer \in OrderCustomers,
          order_status \in SeqToSet(ORDER_STATUSES), order_date \in OrderDates,
          items \in ItemLists, rate \in TaxRates, roll \in {700, 701} :
       \E ship_days \in DrawIf(order_status \in {"shipped", "delivered"}, RandIntEnds(1, 3)),
          deliver_days \in DrawIf(order_status = "delivered", RandIntEnds(1, 5)),
          ship_draw \in DrawIf(Subtotal(items) < 5000, {0, 1599}),
          frac \in DrawIf(roll > 700, {0, 2000}) :
         LET shipped_date == ShippedDate(order_status, order_date, ship_days)
             delivered_date == DeliveredDate(order_status, shipped_date, deliver_days)
         IN  rec' = OrderRecord("generate_order", customer, order_status, order_date,
                                shipped_date, delivered_date, items, rate, ship_draw,
                                roll, frac)
    /\ existing_customers' = IF existing_customers = << >>
                           THEN << [id |-> AnyUuid] >>
                           ELSE existing_customers
    /\ UNCHANGED <<existing_sessions, next_uuid>>
    /\ UNCHANGED loadVars
    /\ UNCHANGED <<runVars, mutVars>>

\* data generator, generate_order(customer=None)
GenerateOrder ==
    /\ rec.table = "none"
    /\ \E customer \in OrderCustomers,
          order_status \in SeqToSet(ORDER_STATUSES), order_date \in OrderDates,
          items \in ItemLists, rate \in TaxRates, roll \in {700, 701} :
       \E ship_days \in DrawIf(order_status \in {"shipped", "delivered"}, RandIntEnds(1, 3)),
          deliver_days \in DrawIf(order_status = "delivered", RandIntEnds(1, 5)),
          ship_draw \in DrawIf(Subtotal(items) < 5000, {0, 1599}),
          frac \in DrawIf(roll > 700, {0, 2000}) :
         LET shipped_date == ShippedDate(order_status, order_date, ship_days)
             delivered_date == DeliveredDate(order_status, shipped_date, deliver_days)
         IN  rec' = OrderRecord("generate_order", customer, order_status, order_date,
                                shipped_date, delivered_date, items, rate, ship_draw,
                                roll, frac)
    /\ UNCHANGED <<existing_customers, existing_sessions, next_uuid>>
    /\ UNCHANGED loadVars
    /\ UNCHANGED <<runVars, mutVars>>

\* load generator, generate_insert_order: every identity is a new uuid4
GenerateInsertOrder ==
    /\ rec.table = "none"
    /\ \E order_status \in SeqToSet(ORDER_STATUSES), order_date \in OrderDates,
          items \in ItemLists, rate \in TaxRates, roll \in {700, 701} :
       \E ship_days \in DrawIf(order_status \in {"shipped", "delivered"}, RandIntEnds(1, 3)),
          deliver_days \in DrawIf(order_status = "delivered", InsertDeliveredDays),
          ship_draw \in DrawIf(Subtotal(items) < 5000, {0, 1599}),
          frac \in DrawIf(roll > 700, {0, 2000}) :
         rec' = OrderRecord("generate_insert_order", [id |-> AnyUuid], order_status,
                            order_date,
                            InsertShippedDate(order_status, order_date, ship_days),
                            InsertDeliveredDate(order_status, order_date, deliver_days),
                            items, rate, ship_draw, roll, frac)
    /\ UNCHANGED <<existing_customers, existing_sessions, next_uuid>>
    /\ UNCHANGED loadVars
    /\ UNCHANGED <<runVars, mutVars>>

\* a product of the catalog, 'PROD-0001' .. 'PROD-0100', by its number
ProductIds == RandIntEnds(1, 100)

\* fake.word() + ' ' + fake.word(), by its length: never the empty string
SearchQueries == {3, 20}

\* product = random.choice(PRODUCTS) if page_type == 'product' else None;
\* load generator: product = None, replaced by a dict if page_type == 'product'
ProductOf(page_type, product) == IF page_type = "product" THEN product ELSE None

\* product[...] if product else None
ProductField(product, value) == IF Truthy(product) THEN value ELSE None

\* fake.word() + ' ' + fake.word() if page_type == 'search' else None
SearchQuery(page_type, words) == IF page_type = "search" THEN words ELSE None

\* a result count that is drawn for every page view
SearchResultsAlways(search_query, n) == n

\* data generator: random.randint(0, 500) if search_query else None
SearchResults(search_query, n) == IF Truthy(search_query) THEN n ELSE None

\* load generator: random.randint(0, 500) if page_type == 'search' else None
InsertSearchResults(page_type, n) == IF page_type = "search" THEN n ELSE None

\* the stored page view fields
PageViewRecord(by, session_id, customer_id, page_type, product, price, search_query, search_results) ==
    [table |-> "page_views", by |-> by,
     session_id |-> session_id,
     customer_id |-> customer_id,
     page_type |-> page_type,
     product_id |-> ProductField(product, product),
     product_name |-> ProductField(product, product),
     product_category |-> ProductField(product, product),
     product_price |-> ProductField(product, price),
     search_query |-> search_query,
     search_results_count |-> search_results]

\* random.choice(existing_customers)['id']
\* if existing_customers and random.random() > 0.4 else None
PageViewCustomerIds(roll) ==
    IF existing_customers # << >> /\ roll > 400
    THEN { c.id : c \in RandomChoice(existing_customers) }
    ELSE {None}

\* a page view generator that does not register the session
GeneratePageViewUnregistered ==
    /\ rec.table = "none"
    /\ Len(existing_sessions) < MaxPool
    /\ \E roll \in DrawIf(existing_customers # << >>, {400, 401}),
          page_type \in SeqToSet(PAGE_TYPES) :
       \E customer_id \in PageViewCustomerIds(roll),
          pid \in DrawIf(page_type = "product", ProductIds),
          price \in DrawIf(page_type = "product", Prices),
          words \in DrawIf(page_type = "search", SearchQueries),
          n \in DrawIf(page_type = "search", RandIntEnds(0, 500)) :
         LET search_query == SearchQuery(page_type, words)
         IN  /\ rec' = PageViewRecord("generate_page_view", next_uuid, customer_id,
                                      page_type, ProductOf(page_type, pid), price,
                                      search_query, SearchResults(search_query, n))
             /\ existing_sessions' = existing_sessions
    /\ next_uuid' = next_uuid + 1
    /\ UNCHANGED existing_customers
    /\ UNCHANGED loadVars
    /\ UNCHANGED <<runVars, mutVars>>

\* data generator, generate_page_view: the record and the entry appended to
\* existing_sessions
GeneratePageView ==
    /\ rec.table = "none"
    /\ Len(existing_sessions) < MaxPool
    /\ \E roll \in DrawIf(existing_customers # << >>, {400, 401}),
          page_type \in SeqToSet(PAGE_TYPES) :
       \E customer_id \in PageViewCustomerIds(roll),
          pid \in DrawIf(page_type = "product", ProductIds),
          price \in DrawIf(page_type = "product", Prices),
          words \in DrawIf(page_type = "search", SearchQueries),
          n \in DrawIf(page_type = "search", RandIntEnds(0, 500)) :
         LET search_query == SearchQuery(page_type, words)
         IN  /\ rec' = PageViewRecord("generate_page_view", next_uuid, customer_id,
                                      page_type, ProductOf(page_type, pid), price,
                                      search_query, SearchResults(search_query, n))
             /\ existing_sessions' =
                  Append(existing_sessions, [id |-> next_uuid, customer_id |-> customer_id])
    /\ next_uuid' = next_uuid + 1
    /\ UNCHANGED existing_customers
    /\ UNCHANGED loadVars
    /\ UNCHANGED <<runVars, mutVars>>

\* load generator, generate_insert_page_view: every identity is a new uuid4,
\* the customer_id is None with probability 0.4
GenerateInsertPageView ==
    /\ rec.table = "none"
    /\ \E roll \in {400, 401}, page_type \in SeqToSet(PAGE_TYPES) :
       \E pid \in DrawIf(page_type = "product", ProductIds),
          price \in DrawIf(page_type = "product", Prices),
          words \in DrawIf(page_type = "search", SearchQueries),
          n \in DrawIf(page_type = "search", RandIntEnds(0, 500)) :
         rec' = PageViewRecord("generate_insert_page_view", AnyUuid,
                               IF roll > 400 THEN AnyUuid ELSE None,
                               page_type, ProductOf(page_type, pid), price,
                               SearchQuery(page_type, words),
                               InsertSearchResults(page_type, n))
    /\ UNCHANGED <<existing_customers, existing_sessions, next_uuid>>
    /\ UNCHANGED loadVars
    /\ UNCHANGED <<runVars, mutVars>>

\* cart_created = fake.date_time_between(start_date='-1d', end_date='now'), in
\* minutes; 1440 is now
CartCreated == {0, 1440}

\* an abandonment time that is also set for expired carts
CartAbandonedAtOrExpired(cart_status, cart_updated, hours) ==
    IF cart_status \in {"abandoned", "expired"} THEN cart_updated + 60 * hours ELSE None

\* cart_updated + timedelta(hours=random.randint(1, 24))
\* if cart_status == 'abandoned' else None; the same in both generators
CartAbandonedAt(cart_status, cart_updated, hours) ==
    IF cart_status = "abandoned" THEN cart_updated + 60 * hours ELSE None

\* cart_updated + timedelta(minutes=random.randint(5, 30))
\* if cart_status == 'converted' else None; the same in both generators
CartConvertedAt(cart_status, cart_updated, minutes) ==
    IF cart_status = "converted" THEN cart_updated + minutes ELSE None

\* an order reference that is set for every cart that is no longer active
ConvertedOrderIdUnlessActive(cart_status) ==
    IF cart_status # "active" THEN AnyUuid ELSE None

\* uuid.uuid4() if cart_status == 'converted' else None; the same in both
\* generators
ConvertedOrderId(cart_status) ==
    IF cart_status = "converted" THEN AnyUuid ELSE None

\* the stored cart fields and the status-dependent timestamps, in minutes
CartRecord(by, session_id, customer_id, cart_status, cart_created, updated_minutes, abandoned_hours, converted_minutes, items, rate, ship_draw, roll, frac) ==
    LET subtotal == Subtotal(items)
        estimated_tax == TaxAmount(subtotal, rate)
        estimated_shipping == ShippingCost(subtotal, ship_draw)
        discount_amount == DiscountAmount(subtotal, roll, 800, frac)
        cart_updated == cart_created + updated_minutes
    IN  [table |-> "shopping_cart", by |-> by,
         session_id |-> session_id,
         customer_id |-> customer_id,
         cart_status |-> cart_status,
         cart_created_at |-> cart_created,
         cart_updated_at |-> cart_updated,
         cart_abandoned_at |-> CartAbandonedAt(cart_status, cart_updated, abandoned_hours),
         cart_converted_at |-> CartConvertedAt(cart_status, cart_updated, converted_minutes),
         converted_order_id |-> ConvertedOrderId(cart_status),
         items |-> items,
         tax_rate |-> rate,
         subtotal |-> subtotal,
         estimated_tax |-> estimated_tax,
         estimated_shipping |-> estimated_shipping,
         discount_amount |-> discount_amount,
         estimated_total |-> TotalAmount(subtotal, estimated_tax, estimated_shipping,
                                         discount_amount)]

\* random.choice(existing_sessions) if existing_sessions
\* else {'id': uuid.uuid4(), 'customer_id': None}
CartSessions ==
    IF existing_sessions # << >>
    THEN RandomChoice(existing_sessions)
    ELSE { [id |-> AnyUuid, customer_id |-> None] }

\* the right operand of session.get('customer_id') or (...):
\* random.choice(existing_customers)['id']
\* if existing_customers and random.random() > 0.5 else None
CartCustomerPicks(session, croll) ==
    IF ~Truthy(session.customer_id) /\ existing_customers # << >> /\ croll > 500
    THEN { c.id : c \in RandomChoice(existing_customers) }
    ELSE {None}

\* data generator, generate_shopping_cart: a registered session when there is
\* one, otherwise a fresh session id; the customer of the session, or else a
\* registered customer with probability 0.5, or else None
GenerateShoppingCart ==
    /\ rec.table = "none"
    /\ \E session \in CartSessions,
          cart_status \in SeqToSet(CART_STATUSES), cart_created \in CartCreated,
          updated_minutes \in RandIntEnds(1, 60),
          items \in ItemLists, rate \in TaxRates, roll \in {800, 801} :
       \E croll \in DrawIf(~Truthy(session.customer_id) /\ existing_customers # << >>,
                           {500, 501}),
          abandoned_hours \in DrawIf(cart_status = "abandoned", RandIntEnds(1, 24)),
          converted_minutes \in DrawIf(cart_status = "converted", RandIntEnds(5, 30)),
          ship_draw \in DrawIf(Subtotal(items) < 5000, {0, 1299}),
          frac \in DrawIf(roll > 800, {0, 1500}) :
       \E pick \in CartCustomerPicks(session, croll) :
         /\ rec' = CartRecord("generate_shopping_cart", session.id,
                              IF Truthy(session.customer_id) THEN session.customer_id ELSE pick,
                              cart_status, cart_created, updated_minutes, abandoned_hours,
                              converted_minutes, items, rate, ship_draw, roll, frac)
    /\ UNCHANGED <<existing_customers, existing_sessions, next_uuid>>
    /\ UNCHANGED loadVars
    /\ UNCHANGED <<runVars, mutVars>>

\* load generator, generate_insert_shopping_cart: every identity is a new uuid4,
\* the customer_id is None with probability 0.5
GenerateInsertShoppingCart ==
    /\ rec.table = "none"
    /\ \E croll \in {500, 501},
          cart_status \in SeqToSet(CART_STATUSES), cart_created \in CartCreated,
          updated_minutes \in RandIntEnds(1, 60),
          items \in ItemLists, rate \in TaxRates, roll \in {800, 801} :
       \E abandoned_hours \in DrawIf(cart_status = "abandoned", RandIntEnds(1, 24)),
          converted_minutes \in DrawIf(cart_status = "converted", RandIntEnds(5, 30)),
          ship_draw \in DrawIf(Subtotal(items) < 5000, {0, 1299}),
          frac \in DrawIf(roll > 800, {0, 1500}) :
         rec' = CartRecord("generate_insert_shopping_cart", AnyUuid,
                           IF croll > 500 THEN AnyUuid ELSE None,
                           cart_status, cart_created, updated_minutes, abandoned_hours,
                           converted_minutes, items, rate, ship_draw, roll, frac)
    /\ UNCHANGED <<existing_customers, existing_sessions, next_uuid>>
    /\ UNCHANGED loadVars
    /\ UNCHANGED <<runVars, mutVars>>

\* client.insert(table, data, column_names=columns): the generated record is
\* sent and dropped
InsertRecord ==
    /\ rec.table # "none"
    /\ rec' = NoRecord
    /\ UNCHANGED <<existing_customers, existing_sessions, next_uuid>>
    /\ UNCHANGED loadVars
    /\ UNCHANGED <<runVars, mutVars>>

NextGen ==
    \/ GenerateCustomer
    \/ GenerateInsertCustomer
    \/ GenerateOrder
    \/ GenerateInsertOrder
    \/ GeneratePageView
    \/ GenerateInsertPageView
    \/ GenerateShoppingCart
    \/ GenerateInsertShoppingCart
    \/ InsertRecord

\* no table is under observation
NoMutation == [name |-> "none"]

InitMut ==
    /\ rows = << >>
    /\ mutation = NoMutation
    /\ mutations = 0

----------------------------------------------------------------------------
(* run_generator *)

NoBatch == [table |-> "none"]

InitRun ==
    /\ run_pc = "connect"
    /\ run_client = "none"
    /\ iteration = 0
    /\ operations = << >>
    /\ batch = NoBatch
    /\ run_closes = 0
    /\ run_exit = None

\* a start without pre-population
PrePopulationNone == << >>

\* insert_customers(client, 10) and insert_page_views(client, 20), before the
\* try block
PrePopulation ==
    << [table |-> "customers", count |-> 10], [table |-> "page_views", count |-> 20] >>

\* where run_generator goes once the pending inserts are done: into the loop
\* after the pre-population, to the sleep at the end of an iteration
AfterInserts(ops, iter) ==
    IF ops # << >> THEN "next" ELSE IF iter = 0 THEN "plan" ELSE "sleep"

\* client = get_client() returns; the pre-population is next
RunConnect ==
    /\ run_pc = "connect"
    /\ run_client' = "open"
    /\ operations' = PrePopulation
    /\ run_pc' = AfterInserts(PrePopulation, 0)
    /\ UNCHANGED <<iteration, batch, run_closes, run_exit>>
    /\ UNCHANGED <<loadVars, genVars, mutVars>>

\* a start that goes on to the pre-population without a client
RunConnectFailIgnored ==
    /\ run_pc = "connect"
    /\ run_pc' = "next"
    /\ operations' = PrePopulation
    /\ UNCHANGED <<run_client, iteration, batch, run_closes, run_exit>>
    /\ UNCHANGED <<loadVars, genVars, mutVars>>

\* client = get_client() raises: outside the try block, the exception leaves
\* run_generator and the interpreter exits with status 1
RunConnectFail ==
    /\ run_pc = "connect"
    /\ run_pc' = "fatal"
    /\ run_exit' = 1
    /\ UNCHANGED <<run_client, iteration, operations, batch, run_closes>>
    /\ UNCHANGED <<loadVars, genVars, mutVars>>

\* the operations list of an iteration before random.shuffle
Planned(customer_count, page_view_count, cart_count, order_count) ==
    (IF customer_count > 0 THEN << [table |-> "customers", count |-> customer_count] >> ELSE << >>) \o << [table |-> "page_views", count |-> page_view_count], [table |-> "shopping_cart", count |-> cart_count], [table |-> "orders", count |-> order_count] >>

\* random.shuffle(operations): every order of the list
Shuffles(ops) ==
    { [i \in 1..Len(ops) |-> ops[p[i]]] : p \in Permutations(1..Len(ops)) }

\* top of while True: iteration += 1, the four counts and the shuffled list
PlanIteration ==
    /\ run_pc = "plan"
    /\ iteration < MaxIterations
    /\ iteration' = iteration + 1
    /\ \E page_view_count \in RandIntEnds(5, 8), cart_count \in RandIntEnds(2, 4),
          order_count \in RandIntEnds(1, 2), customer_count \in RandIntEnds(0, 1) :
         operations' \in Shuffles(Planned(customer_count, page_view_count, cart_count,
                                          order_count))
    /\ run_pc' = "next"
    /\ UNCHANGED <<run_client, batch, run_closes, run_exit>>
    /\ UNCHANGED <<loadVars, genVars, mutVars>>

\* the picks that the model draws for the records of one batch: the oldest and
\* the newest entry of the pool
PoolEnds(pool) == IF pool = << >> THEN {} ELSE {pool[1], pool[Len(pool)]}

BatchPicks(choices, pool) == IF pool = << >> THEN choices ELSE choices \cap PoolEnds(pool)

\* the non-empty sets of at most count picks
PickSets(picks, count) == { ps \in SUBSET picks : ps # {} /\ Cardinality(ps) <= count }

\* customers = [generate_customer() for _ in range(count)]
CustomerBatch(count) ==
    /\ existing_customers' =
         existing_customers \o [i \in 1..count |-> [id |-> next_uuid + i - 1]]
    /\ next_uuid' = next_uuid + count
    /\ batch' = [table |-> "customers", count |-> count,
                 customer_refs |-> {}, session_refs |-> {}]
    /\ UNCHANGED existing_sessions

\* page_views = [generate_page_view() for _ in range(count)]; one customer draw
\* for the whole batch
PageViewBatch(count) ==
    /\ \E roll \in DrawIf(existing_customers # << >>, {400, 401}) :
       \E customer_id \in PageViewCustomerIds(roll) \cap ({None} \cup { c.id : c \in PoolEnds(existing_customers) }) :
         /\ existing_sessions' =
              existing_sessions \o
                [i \in 1..count |-> [id |-> next_uuid + i - 1, customer_id |-> customer_id]]
         /\ batch' = [table |-> "page_views", count |-> count,
                      customer_refs |-> {customer_id} \ {None}, session_refs |-> {}]
    /\ next_uuid' = next_uuid + count
    /\ UNCHANGED existing_customers

\* orders = [generate_order() for _ in range(count)]
OrderBatch(count) ==
    /\ \E customers \in PickSets(BatchPicks(OrderCustomers, existing_customers), count) :
         batch' = [table |-> "orders", count |-> count,
                   customer_refs |-> { c.id : c \in customers }, session_refs |-> {}]
    /\ UNCHANGED <<existing_customers, existing_sessions, next_uuid>>

\* carts = [generate_shopping_cart() for _ in range(count)]
CartBatch(count) ==
    /\ \E sessions \in PickSets(BatchPicks(CartSessions, existing_sessions), count) :
         batch' = [table |-> "shopping_cart", count |-> count,
                   customer_refs |-> { e.customer_id : e \in sessions } \ {None},
                   session_refs |-> { e.id : e \in sessions }]
    /\ UNCHANGED <<existing_customers, existing_sessions, next_uuid>>

\* insert_customers / insert_page_views / insert_shopping_carts / insert_orders
\* up to the call of client.insert: the records of the next pair are generated
GenerateBatch ==
    /\ run_pc = "next"
    /\ operations # << >>
    /\ LET table == Head(operations).table
           count == Head(operations).count
       IN  CASE table = "customers" -> CustomerBatch(count)
             [] table = "page_views" -> PageViewBatch(count)
             [] table = "shopping_cart" -> CartBatch(count)
             [] table = "orders" -> OrderBatch(count)
    /\ operations' = Tail(operations)
    /\ run_pc' = "insert"
    /\ UNCHANGED <<run_client, iteration, run_closes, run_exit>>
    /\ UNCHANGED rec
    /\ UNCHANGED <<loadVars, mutVars>>

\* client.insert returns; the next pair, or the loop, or the sleep
InsertOk ==
    /\ run_pc = "insert"
    /\ batch' = NoBatch
    /\ run_pc' = AfterInserts(operations, iteration)
    /\ UNCHANGED <<run_client, iteration, operations, run_closes, run_exit>>
    /\ UNCHANGED <<loadVars, genVars, mutVars>>

\* a failed step whose exception is printed and not raised again
RaiseSwallowed ==
    IF iteration > 0
    THEN /\ run_pc' = "failed"
         /\ run_client' = "closed"
         /\ run_closes' = run_closes + 1
         /\ run_exit' = 0
    ELSE /\ run_pc' = "fatal"
         /\ run_exit' = 1
         /\ UNCHANGED <<run_client, run_closes>>

\* the exception of a failed step leaves run_generator: inside the try block
\* through except Exception (print, raise) and finally (client.close()), during
\* the pre-population directly
Raise ==
    IF iteration > 0
    THEN /\ run_pc' = "failed"
         /\ run_client' = "closed"
         /\ run_closes' = run_closes + 1
         /\ run_exit' = 1
    ELSE /\ run_pc' = "fatal"
         /\ run_exit' = 1
         /\ UNCHANGED <<run_client, run_closes>>

\* client.insert raises: insert_* does not catch it
InsertFail ==
    /\ run_pc = "insert"
    /\ Raise
    /\ UNCHANGED <<iteration, operations, batch>>
    /\ UNCHANGED <<loadVars, genVars, mutVars>>

\* time.sleep(random.uniform(12, 18)) returns
RunSleep ==
    /\ run_pc = "sleep"
    /\ run_pc' = "plan"
    /\ UNCHANGED <<run_client, iteration, operations, batch, run_closes, run_exit>>
    /\ UNCHANGED <<loadVars, genVars, mutVars>>

\* KeyboardInterrupt: inside the try block it is caught, the finally clause
\* closes the client and run_generator returns; during the pre-population it
\* leaves run_generator uncaught
RunInterrupt ==
    /\ run_pc \in {"plan", "next", "insert", "sleep"}
    /\ IF iteration > 0 \/ run_pc = "plan"
       THEN /\ run_pc' = "stopped"
            /\ run_client' = "closed"
            /\ run_closes' = run_closes + 1
            /\ run_exit' = 0
       ELSE /\ run_pc' = "fatal"
            /\ run_exit' = 1
            /\ UNCHANGED <<run_client, run_closes>>
    /\ UNCHANGED <<iteration, operations, batch>>
    /\ UNCHANGED <<loadVars, genVars, mutVars>>

NextData ==
    \/ RunConnect
    \/ RunConnectFail
    \/ PlanIteration
    \/ GenerateBatch
    \/ InsertOk
    \/ InsertFail
    \/ RunSleep
    \/ RunInterrupt

Init == InitLoad /\ InitGen /\ InitRun /\ InitMut

Next ==
    \/ Connect
    \/ ConnectFail
    \/ SelectOp
    \/ ExecuteOk
    \/ ExecuteFail
    \/ Record
    \/ Pace
    \/ Sleep
    \/ Interrupt

Spec == Init /\ [][Next]_vars

\* run_load_generator inside its loop after WarmOps operations: all of them
\* SELECTs of the first template that took 20 ms, one of which failed
InitWarm ==
    LET first == SELECT_QUERY_FUNCTIONS[1]
    IN  /\ pc = "select"
        /\ client_open = TRUE
        /\ op_roll = 0
        /\ op_type = "SELECT"
        /\ op_name = first
        /\ success = TRUE
        /\ duration_ms = 20
        /\ total_ops = WarmOps
        /\ successful_ops = WarmOps - 1
        /\ failed_ops = 1
        /\ total_duration = 20 * WarmOps
        /\ op_stats = [t \in OpTypes |->
                         IF t = "SELECT"
                         THEN [count |-> WarmOps, success |-> WarmOps - 1, errors |-> 1,
                               total_ms |-> 20 * WarmOps]
                         ELSE ZeroStats]
        /\ query_stats = (first :> [count |-> WarmOps - 1,
                                    total_ms |-> 20 * (WarmOps - 1),
                                    errors |-> 1])
        /\ interval = JitteredInterval(1500)
        /\ sleep_time = SleepTime(JitteredInterval(1500), 20)
        /\ dispatched = WarmOps
        /\ name_success = [n \in AllNames |-> IF n = first THEN WarmOps - 1 ELSE 0]
        /\ overran = FALSE
        /\ stop_at = "none"
        /\ events = << >>
        /\ reported = NoSummary
        /\ exit_code = None
        /\ InitGen
        /\ InitRun
        /\ InitMut

\* the steps of the loop and its interruption
NextLoop ==
    \/ SelectOp
    \/ ExecuteOk
    \/ ExecuteFail
    \/ Record
    \/ Pace
    \/ Sleep
    \/ Interrupt

SpecSummary == InitWarm /\ [][NextLoop]_vars

SpecGen == Init /\ [][NextGen]_vars

SpecData == Init /\ [][NextData]_vars

\* the startup of the load generator beside the data generator
NextStartup ==
    \/ Connect
    \/ ConnectFail
    \/ NextData

SpecStartup == Init /\ [][NextStartup]_vars

----------------------------------------------------------------------------
(* Update and delete templates *)

\* A template's statement, by its clauses: ALTER TABLE table UPDATE / DELETE,
\* the columns of the WHERE clause ("any" / None: the column is not tested),
\* AND rand() % 100 < sample_pct, and the assignments of an UPDATE ("keep" / 0:
\* the column is not assigned).  Intervals are in hours.
Query(name, kind, table, where_status, where_segment, older_than, sample_pct, set_status, add_points, set_tier, set_abandoned_at) ==
    [name |-> name, kind |-> kind, table |-> table, where_status |-> where_status,
     where_segment |-> where_segment, older_than |-> older_than,
     sample_pct |-> sample_pct, set_status |-> set_status, add_points |-> add_points,
     set_tier |-> set_tier, set_abandoned_at |-> set_abandoned_at, ok |-> TRUE]

CUSTOMER_SEGMENTS == << "new", "regular", "vip", "churned", "at_risk", "high_value" >>

LOYALTY_TIERS == << "bronze", "silver", "gold", "platinum", "diamond" >>

\* the first and the last entry of a list: the draws taken from a long list
SeqEnds(seq) == {seq[1], seq[Len(seq)]}

generate_update_customer_status ==
    { Query("generate_update_customer_status", "UPDATE", "customers", old_status, "any",
            None, 5, new_status, 0, "keep", FALSE) :
        old_status \in {"active", "inactive", "suspended", "pending_verification"},
        new_status \in {"active", "inactive", "suspended"} }

generate_update_customer_loyalty ==
    { Query("generate_update_customer_loyalty", "UPDATE", "customers", "any", segment,
            None, 10, "keep", points_add, new_tier, FALSE) :
        segment \in SeqEnds(CUSTOMER_SEGMENTS),
        points_add \in RandIntEnds(100, 1000),
        new_tier \in SeqEnds(LOYALTY_TIERS) }

\* transitions that also reopen a delivered order
generate_update_order_status_reopening ==
    { Query("generate_update_order_status", "UPDATE", "orders", transition[1], "any",
            None, 15, transition[2], 0, "keep", FALSE) :
        transition \in { <<"pending", "confirmed">>, <<"confirmed", "processing">>,
                         <<"processing", "shipped">>, <<"shipped", "delivered">>,
                         <<"delivered", "pending">> } }

generate_update_order_status ==
    { Query("generate_update_order_status", "UPDATE", "orders", transition[1], "any",
            None, 15, transition[2], 0, "keep", FALSE) :
        transition \in { <<"pending", "confirmed">>, <<"confirmed", "processing">>,
                         <<"processing", "shipped">>, <<"shipped", "delivered">> } }

generate_update_cart_status ==
    { Query("generate_update_cart_status", "UPDATE", "shopping_cart", "active", "any",
            2, 20, "abandoned", 0, "keep", TRUE) }

generate_delete_old_page_views ==
    { Query("generate_delete_old_page_views", "DELETE", "page_views", "any", "any",
            hours_ago, 5, "keep", 0, "keep", FALSE) :
        hours_ago \in RandIntEnds(20, 24) }

generate_delete_expired_carts ==
    { Query("generate_delete_expired_carts", "DELETE", "shopping_cart", "expired", "any",
            24, 10, "keep", 0, "keep", FALSE) }

generate_delete_cancelled_orders ==
    { Query("generate_delete_cancelled_orders", "DELETE", "orders", "cancelled", "any",
            24 * days_ago, 5, "keep", 0, "keep", FALSE) :
        days_ago \in RandIntEnds(5, 7) }

generate_delete_inactive_customers ==
    { Query("generate_delete_inactive_customers", "DELETE", "customers", "suspended",
            "any", 24 * 7, 3, "keep", 0, "keep", FALSE) }

\* query = update_func() / query = delete_func()
QueriesOf(name) ==
    CASE name = "generate_update_customer_status" -> generate_update_customer_status
      [] name = "generate_update_customer_loyalty" -> generate_update_customer_loyalty
      [] name = "generate_update_order_status" -> generate_update_order_status
      [] name = "generate_update_cart_status" -> generate_update_cart_status
      [] name = "generate_delete_old_page_views" -> generate_delete_old_page_views
      [] name = "generate_delete_expired_carts" -> generate_delete_expired_carts
      [] name = "generate_delete_cancelled_orders" -> generate_delete_cancelled_orders
      [] name = "generate_delete_inactive_customers" -> generate_delete_inactive_customers

\* The rows of the observed table.  status is account_status, order_status or
\* cart_status; age is the number of hours that last_login_date, order_date,
\* cart_updated_at or view_timestamp lies before now(); updated_at and
\* cart_abandoned_at are hours before now() too, 0 being now() and None unset.
RowIds == {1, 2}

Row(table, status, segment, age) ==
    [table |-> table, status |-> status, segment |-> segment, age |-> age,
     loyalty_points |-> 0, loyalty_tier |-> LOYALTY_TIERS[1],
     cart_abandoned_at |-> IF status = "abandoned" THEN age ELSE None,
     updated_at |-> age, deleted |-> FALSE]

Tables == {"customers", "orders", "shopping_cart", "page_views"}

\* rows on both sides of every interval that a template tests
SampleRows(table) ==
    CASE table = "customers" ->
           { Row(table, status, segment, age) :
               status \in {"active", "inactive", "suspended", "pending_verification"},
               segment \in SeqEnds(CUSTOMER_SEGMENTS), age \in {24 * 7, 24 * 7 + 1} }
      [] table = "orders" ->
           { Row(table, status, "none", age) :
               status \in SeqToSet(ORDER_STATUSES), age \in {24 * 6, 24 * 7 + 1} }
      [] table = "shopping_cart" ->
           { Row(table, status, "none", age) :
               status \in SeqToSet(CART_STATUSES), age \in {2, 3, 25} }
      [] table = "page_views" ->
           { Row(table, "none", "none", age) : age \in {20, 22, 25} }

\* a table of the backend with two rows, before any mutation of this run
InitRows ==
    /\ \E table \in Tables : rows \in [RowIds -> SampleRows(table)]
    /\ mutation = NoMutation
    /\ mutations = 0

\* the WHERE clause without its sampling term
Matches(q, row) ==
    /\ row.table = q.table
    /\ ~row.deleted
    /\ q.where_status # "any" => row.status = q.where_status
    /\ q.where_segment # "any" => row.segment = q.where_segment
    /\ q.older_than # None => row.age > q.older_than

\* rand(): a UInt32 drawn for every row that the other terms of the WHERE
\* clause let through; the values around the threshold
RandDraws(q) == {q.sample_pct, 100 + q.sample_pct - 1}

\* rand() % 100 < sample_pct
Sampled(q, draw) == draw % 100 < q.sample_pct

\* the assignments of an UPDATE, or the removal of the row by a DELETE
Mutated(q, row) ==
    IF q.kind = "DELETE"
    THEN [row EXCEPT !.deleted = TRUE]
    ELSE [row EXCEPT !.status = IF q.set_status = "keep" THEN @ ELSE q.set_status,
                     !.loyalty_points = @ + q.add_points,
                     !.loyalty_tier = IF q.set_tier = "keep" THEN @ ELSE q.set_tier,
                     !.cart_abandoned_at = IF q.set_abandoned_at THEN 0 ELSE @,
                     !.updated_at = 0]

\* a mutation that applies its sampling term to the whole table
ApplyRowWholeTable(q, row, draw) ==
    IF row.table = q.table /\ ~row.deleted /\ Sampled(q, draw) THEN Mutated(q, row) ELSE row

\* the mutation on one row: the rows that satisfy the whole WHERE clause
ApplyRow(q, row, draw) ==
    IF Matches(q, row) /\ Sampled(q, draw) THEN Mutated(q, row) ELSE row

\* client.command(query): the mutation on every row, or an exception and no
\* change
Command(q) ==
    /\ mutations < MaxMutations
    /\ mutations' = mutations + 1
    /\ \/ /\ \E d1 \in DrawIf(Matches(q, rows[1]), RandDraws(q)),
                  d2 \in DrawIf(Matches(q, rows[2]), RandDraws(q)) :
               rows' = [i \in RowIds |-> ApplyRow(q, rows[i], IF i = 1 THEN d1 ELSE d2)]
          /\ mutation' = q
       \/ /\ rows' = rows
          /\ mutation' = [q EXCEPT !.ok = FALSE]
    /\ UNCHANGED <<loadVars, genVars, runVars>>

ExecuteRandomUpdate ==
    \E update_func \in RandomChoice(UPDATE_FUNCTIONS) :
      \E query \in QueriesOf(update_func) : Command(query)

ExecuteRandomDelete ==
    \E delete_func \in RandomChoice(DELETE_FUNCTIONS) :
      \E query \in QueriesOf(delete_func) : Command(query)

NextMut ==
    \/ ExecuteRandomUpdate
    \/ ExecuteRandomDelete

\* both programs before their start, beside a table that holds rows
InitTable == InitLoad /\ InitGen /\ InitRun /\ InitRows

SpecMut == InitTable /\ [][NextMut]_vars

----------------------------------------------------------------------------
(* Statistics of the load generator *)

RECURSIVE SumCounts(_, _)
SumCounts(qs, names) ==
    IF names = {} THEN 0
    ELSE LET n == CHOOSE x \in names : TRUE
         IN  qs[n].count + SumCounts(qs, names \ {n})

\* the loop is between two iterations or has recorded the current one
Recorded == pc \in {"select", "pace", "sleep"}

\* C1: for every tracked operation name, the number of successful outcomes
\* recorded for it plus its errors equals the count of its entry.
C1_NameSuccessPlusErrorsIsCount ==
    \A n \in DOMAIN query_stats :
        name_success[n] + query_stats[n].errors = query_stats[n].count

\* C2: after any sequence of recorded outcomes the per-name counts sum to
\* total_ops.
C2_NameCountsSumToTotalOps ==
    Recorded => SumCounts(query_stats, DOMAIN query_stats) = total_ops

\* C3: a failed backend call is recorded exactly once as failed (failed_ops + 1,
\* successful_ops unchanged), is not sent again, and the loop goes on to pace;
\* the loop ends only by an interrupt, never by a failed operation.
C3_FailureRecordedOnceLoopContinues ==
    /\ [][(pc = "record" /\ ~success /\ pc' # "record" /\ stop_at' = "none")
            => /\ failed_ops' = failed_ops + 1
               /\ successful_ops' = successful_ops
               /\ total_ops' = total_ops + 1
               /\ dispatched' = dispatched
               /\ pc' = "pace"]_vars
    /\ [](pc = "done" => stop_at # "none")
    /\ [](Recorded => total_ops = dispatched)

C3_Witness == pc = "select" /\ ~success /\ failed_ops = 2 /\ total_ops = 2

\* C4 as stated: the stop is taken only at the SELECT_OP boundary, after the
\* current iteration has completed.
C4_StopOnlyAtSelectBoundary ==
    pc = "done" => (stop_at = "select" /\ total_ops = dispatched)

\* C4 amended: the interrupt is taken at whatever point of the iteration it
\* arrives and ends the loop there; an operation in flight is never recorded,
\* a record step that is hit is cut short, and no step runs afterwards.
C4_InterruptTakenWhereItArrives ==
    pc = "done" =>
        /\ stop_at \in LoopPcs
        /\ ~client_open
        /\ stop_at = "execute" => total_ops = dispatched - 1
        /\ stop_at = "record" => total_ops \in {dispatched - 1, dispatched}
        /\ stop_at \in {"select", "pace", "sleep"} => total_ops = dispatched

C4_Witness ==
    pc = "done" /\ stop_at = "execute" /\ dispatched = 2 /\ total_ops = 1

\* the jitter bound [0.5/R, 1.5/R], microseconds
JitterLow == JitteredInterval(500)

JitterHigh == JitteredInterval(1500)

\* the latency of the completed operation, microseconds
LatencyUs == duration_ms * 1000

\* C5 as stated: in every iteration the sleep plus the latency lies within
\* [0.5/R, 1.5/R].
C5_SleepPlusLatencyWithinJitterBound ==
    pc = "sleep" =>
        (JitterLow <= sleep_time + LatencyUs /\ sleep_time + LatencyUs <= JitterHigh)

\* C5 amended: the sleep plus the latency is the larger of the jittered interval
\* and the latency; it lies within [0.5/R, 1.5/R] whenever the latency is at
\* most 1.5/R, and is the jittered interval itself whenever the latency is at
\* most 0.5/R.
C5_SleepPlusLatencyIsMaxOfIntervalAndLatency ==
    pc = "sleep" =>
        /\ sleep_time + LatencyUs = Max(interval, LatencyUs)
        /\ LatencyUs <= JitterHigh =>
              (JitterLow <= sleep_time + LatencyUs /\ sleep_time + LatencyUs <= JitterHigh)
        /\ LatencyUs <= JitterLow => sleep_time + LatencyUs = interval

C5_Witness ==
    pc = "sleep" /\ LatencyUs = JitterHigh /\ interval = JitterLow /\ sleep_time = 0

\* C6: the sleep is max(0, jittered interval - latency) with the jittered
\* interval in [0.5/R, 1.5/R]: never negative, the difference when the latency
\* is at most the interval, 0 when the latency is at least the interval.
C6_SleepIsClampedDifference ==
    pc = "sleep" =>
        /\ JitterLow <= interval /\ interval <= JitterHigh
        /\ sleep_time >= 0
        /\ LatencyUs <= interval => sleep_time = interval - LatencyUs
        /\ LatencyUs >= interval => sleep_time = 0

C6_Witness ==
    pc = "sleep" /\ LatencyUs > interval /\ sleep_time = 0 /\ interval = JitterHigh

\* C7: no catch-up: after an iteration whose latency exceeded its interval, the
\* sleep of a later iteration is still the full difference of that iteration's
\* own interval and latency.
C7_NoCatchUp ==
    (pc = "sleep" /\ overran) =>
        sleep_time = (IF LatencyUs < interval THEN interval - LatencyUs ELSE 0)

C7_Witness ==
    pc = "sleep" /\ overran /\ sleep_time > 0 /\ total_ops = 2

----------------------------------------------------------------------------
(* Dispatch, summaries and shutdown of the load generator *)

\* C17: at most one backend operation is in flight, and it is the one selected
\* last: while a call is in flight or being recorded exactly one selected
\* operation is not yet recorded, and at every other point of the loop all
\* selected operations are recorded, so operation k+1 is selected and sent only
\* after operation k has returned and has been recorded.
C17_OneOperationInFlightInOrder ==
    /\ pc \in {"connect", "fatal"} => (dispatched = 0 /\ total_ops = 0)
    /\ pc \in {"execute", "record"} => dispatched = total_ops + 1
    /\ pc \in {"select", "pace", "sleep"} => dispatched = total_ops
    /\ pc = "done" => (dispatched - total_ops) \in {0, 1}

C17_Witness ==
    pc = "execute" /\ dispatched = 2 /\ total_ops = 1 /\ successful_ops + failed_ops = 1

\* outcomes recorded under a name: the count holds the successes, errors the
\* failures
Outcomes(qs, n) == IF n \in DOMAIN qs THEN qs[n].count + qs[n].errors ELSE 0

\* C18: every iteration dispatches exactly one operation; its kind is fixed by
\* the roll (roll < 0.4 SELECT, 0.4 <= roll < 0.8 INSERT, 0.8 <= roll < 0.9
\* UPDATE, roll >= 0.9 DELETE), its name is one of that kind's catalog and of no
\* other, and the record step adds one outcome to that kind and to that name
\* and to no other kind or name.
C18_KindByRollRecordedUnderKindAndName ==
    /\ [](pc \in {"execute", "record", "pace", "sleep"} =>
            /\ op_roll < 400 => op_type = "SELECT"
            /\ (400 <= op_roll /\ op_roll < 800) => op_type = "INSERT"
            /\ (800 <= op_roll /\ op_roll < 900) => op_type = "UPDATE"
            /\ op_roll >= 900 => op_type = "DELETE"
            /\ op_name \in SeqToSet(Catalog(op_type))
            /\ \A t \in OpTypes \ {op_type} : op_name \notin SeqToSet(Catalog(t)))
    /\ [][(pc = "record" /\ pc' = "pace") =>
            /\ \A t \in OpTypes :
                 /\ op_stats'[t].count =
                      op_stats[t].count + (IF t = op_type THEN 1 ELSE 0)
                 /\ op_stats'[t].success + op_stats'[t].errors =
                      op_stats[t].success + op_stats[t].errors
                        + (IF t = op_type THEN 1 ELSE 0)
            /\ DOMAIN query_stats' = DOMAIN query_stats \cup {op_name}
            /\ \A n \in DOMAIN query_stats' :
                 Outcomes(query_stats', n) =
                   Outcomes(query_stats, n) + (IF n = op_name THEN 1 ELSE 0)]_vars
    /\ [][dispatched' # dispatched =>
            (pc = "select" /\ pc' = "execute" /\ dispatched' = dispatched + 1)]_vars
    /\ [][(pc = "sleep" /\ pc' = "select") => total_ops = dispatched]_vars

C18_Witness ==
    /\ pc = "pace"
    /\ op_roll = 400
    /\ op_type = "INSERT"
    /\ op_name = "insert_customers"
    /\ ~success
    /\ op_stats["INSERT"].count = 1
    /\ query_stats["insert_customers"].errors = 1
    /\ total_ops = 2

\* number of summaries printed so far
Summaries == Cardinality({ i \in DOMAIN events : events[i] = "summary" })

\* C19: while the loop runs, after n recorded operations n \div 100 summaries
\* have been printed; the summary of the operation whose ordinal is a multiple
\* of 100 is printed once that operation is recorded and before the pacing
\* sleep, and the successes and failures it reports sum to that ordinal.
C19_SummaryEveryHundredOperations ==
    /\ pc \in LoopPcs => Summaries = total_ops \div 100
    /\ (pc = "pace" /\ total_ops > 0 /\ total_ops % 100 = 0) =>
          /\ events # << >>
          /\ events[Len(events)] = "summary"
          /\ reported.total_ops = total_ops
    /\ Summaries > 0 =>
          /\ reported.total_ops = 100 * Summaries
          /\ reported.successful_ops + reported.failed_ops = reported.total_ops
    /\ Summaries = 0 => reported = NoSummary

C19_Witness ==
    /\ pc = "sleep"
    /\ total_ops = 100
    /\ events = << "summary" >>
    /\ reported = [total_ops |-> 100, successful_ops |-> 98, failed_ops |-> 2]

Count(e) == Cardinality({ i \in DOMAIN events : events[i] = e })

\* C20: once an interrupt is taken inside the loop the load generator has
\* stopped: the final statistics have been printed exactly once, the client has
\* been closed after that and exactly once, the exit status is 0, and no step
\* follows, so no further operation is dispatched; while no interrupt has been
\* taken the loop has not ended: nothing of the shutdown has happened and the
\* client is open; the only other end is the fatal startup error.
C20_InterruptStopsCleanly ==
    /\ pc = "done" =>
          /\ stop_at \in LoopPcs
          /\ Count("final") = 1
          /\ Count("close") = 1
          /\ Len(events) >= 2
          /\ events[Len(events) - 1] = "final"
          /\ events[Len(events)] = "close"
          /\ ~client_open
          /\ exit_code = 0
          /\ ~ENABLED Next
    /\ pc \in LoopPcs =>
          /\ stop_at = "none"
          /\ Count("final") = 0
          /\ Count("close") = 0
          /\ client_open
          /\ exit_code = None
    /\ pc \in LoopPcs \cup {"done", "connect", "fatal"}
    /\ pc = "fatal" => (stop_at = "none" /\ exit_code = 1 /\ dispatched = 0)

C20_Witness ==
    /\ pc = "done"
    /\ stop_at = "sleep"
    /\ dispatched = 2
    /\ total_ops = 2
    /\ events = << "final", "close" >>
    /\ exit_code = 0

----------------------------------------------------------------------------
(* Counters and the final statistics *)

RECURSIVE SumTotalMs(_, _)
SumTotalMs(qs, names) ==
    IF names = {} THEN 0
    ELSE LET n == CHOOSE x \in names : TRUE
         IN  qs[n].total_ms + SumTotalMs(qs, names \ {n})

\* C24: after an interrupt between two iterations, the final breakdown lists
\* every kind and every name with at least one recorded outcome, those with
\* failures only included, and the latency totals of the names of a kind add up
\* to the latency total of the kind, failed operations included.
C24_FinalBreakdownCoversAllOutcomes ==
    (pc = "done" /\ stop_at \in {"select", "pace", "sleep"}) =>
        /\ \A t \in OpTypes :
              op_stats[t].success + op_stats[t].errors > 0 => t \in FinalKinds
        /\ \A n \in DOMAIN query_stats :
              Outcomes(query_stats, n) > 0 => n \in FinalNames
        /\ \A t \in OpTypes :
              SumTotalMs(query_stats, DOMAIN query_stats \cap SeqToSet(Catalog(t)))
                = op_stats[t].total_ms

SumKinds(f) ==
    op_stats["SELECT"][f] + op_stats["INSERT"][f] + op_stats["UPDATE"][f]
      + op_stats["DELETE"][f]

\* C25: after every completed iteration total_ops = successful_ops + failed_ops,
\* every kind has count = success + errors, and over the kinds the counts sum
\* to total_ops, the successes to successful_ops, the errors to failed_ops and
\* the latency totals to total_duration.
C25_GlobalAndKindCountersAgree ==
    Recorded =>
        /\ total_ops = successful_ops + failed_ops
        /\ \A t \in OpTypes : op_stats[t].count = op_stats[t].success + op_stats[t].errors
        /\ SumKinds("count") = total_ops
        /\ SumKinds("success") = successful_ops
        /\ SumKinds("errors") = failed_ops
        /\ SumKinds("total_ms") = total_duration

C25_Witness ==
    /\ pc = "select"
    /\ total_ops = 2
    /\ successful_ops = 1
    /\ failed_ops = 1
    /\ op_stats["SELECT"].success = 1
    /\ op_stats["DELETE"].errors = 1
    /\ total_duration = 140

\* C26: wherever the interrupt arrives, the final statistics have
\* Total operations = Successful + Failed and count = success + errors for
\* every kind.
C26_FinalStatisticsConsistent ==
    pc = "done" =>
        /\ total_ops = successful_ops + failed_ops
        /\ \A t \in OpTypes : op_stats[t].count = op_stats[t].success + op_stats[t].errors

----------------------------------------------------------------------------
(* Generated orders and carts *)

IsOrder == rec.table = "orders"

IsCart == rec.table = "shopping_cart"

\* C8: for every generated order of either generator, shipped_date is set iff
\* the status is shipped or delivered, and delivered_date is set iff the status
\* is delivered.
C8_ShipDatesSetIffStatus ==
    IsOrder =>
        /\ (rec.shipped_date # None) <=> (rec.order_status \in {"shipped", "delivered"})
        /\ (rec.delivered_date # None) <=> (rec.order_status = "delivered")

C8_Witness ==
    /\ IsOrder
    /\ rec.by = "generate_order"
    /\ rec.order_status = "shipped"
    /\ rec.shipped_date = rec.order_date + 3
    /\ rec.delivered_date = None

\* C9: for every generated order of either generator with both dates set,
\* delivered_date is strictly later than shipped_date and shipped_date is
\* strictly later than order_date.
C9_DeliveredAfterShippedAfterOrdered ==
    (IsOrder /\ rec.shipped_date # None /\ rec.delivered_date # None) =>
        (rec.delivered_date > rec.shipped_date /\ rec.shipped_date > rec.order_date)

C9_Witness ==
    /\ IsOrder
    /\ rec.by = "generate_insert_order"
    /\ rec.order_status = "delivered"
    /\ rec.shipped_date = rec.order_date + 3
    /\ rec.delivered_date = rec.order_date + 4

\* C10: for every generated order and cart the stored total is the stored
\* subtotal + tax + shipping - discount, in cents; an order with subtotal
\* 100.00, tax rate 0.10, shipping 0 and discount 0 has total_amount 110.00.
C10_TotalIsSubtotalPlusTaxPlusShippingMinusDiscount ==
    /\ IsOrder =>
         /\ rec.total_amount =
              rec.subtotal + rec.tax_amount + rec.shipping_cost - rec.discount_amount
         /\ (/\ rec.subtotal = 10000
             /\ rec.tax_rate = 1000
             /\ rec.shipping_cost = 0
             /\ rec.discount_amount = 0) => rec.total_amount = 11000
    /\ IsCart =>
         rec.estimated_total =
           rec.subtotal + rec.estimated_tax + rec.estimated_shipping - rec.discount_amount

C10_Witness ==
    /\ IsOrder
    /\ rec.by = "generate_order"
    /\ rec.subtotal = 10000
    /\ rec.tax_rate = 1000
    /\ rec.shipping_cost = 0
    /\ rec.discount_amount = 0
    /\ rec.total_amount = 11000

\* C11 as stated: for every generated cart of either generator, whatever its
\* status, exactly one of cart_abandoned_at and cart_converted_at is set.
C11_ExactlyOneCartTimestampSet ==
    IsCart => ((rec.cart_abandoned_at # None) # (rec.cart_converted_at # None))

\* C11 amended: for every generated cart of either generator at most one of
\* cart_abandoned_at and cart_converted_at is set: cart_abandoned_at iff the
\* status is abandoned, cart_converted_at iff the status is converted, and
\* neither for an active or an expired cart; a timestamp that is set is later
\* than cart_updated_at.
C11_CartTimestampsFollowStatus ==
    IsCart =>
        /\ (rec.cart_abandoned_at # None) <=> (rec.cart_status = "abandoned")
        /\ (rec.cart_converted_at # None) <=> (rec.cart_status = "converted")
        /\ ~(rec.cart_abandoned_at # None /\ rec.cart_converted_at # None)
        /\ rec.cart_status \in {"active", "expired"} =>
              (rec.cart_abandoned_at = None /\ rec.cart_converted_at = None)
        /\ rec.cart_abandoned_at # None => rec.cart_abandoned_at > rec.cart_updated_at
        /\ rec.cart_converted_at # None => rec.cart_converted_at > rec.cart_updated_at

C11_Witness ==
    /\ IsCart
    /\ rec.by = "generate_insert_shopping_cart"
    /\ rec.cart_status = "expired"
    /\ rec.cart_abandoned_at = None
    /\ rec.cart_converted_at = None

\* C12: for every generated cart of either generator, converted_order_id is set
\* iff the status is converted.
C12_ConvertedOrderIdIffConverted ==
    IsCart => ((rec.converted_order_id # None) <=> (rec.cart_status = "converted"))

C12_Witness ==
    /\ IsCart
    /\ rec.by = "generate_shopping_cart"
    /\ rec.cart_status = "converted"
    /\ rec.converted_order_id # None
    /\ rec.cart_converted_at = rec.cart_updated_at + 30

----------------------------------------------------------------------------
(* Generated page views *)

IsPageView == rec.table = "page_views"

\* C13: for every generated page view of either generator, product_id,
\* product_name, product_category and product_price are all set iff the
\* page_type is product (and none of them is set otherwise), and search_query
\* and search_results_count are both set iff the page_type is search (and none
\* of them is set otherwise); a result count of 0 is a set value.
C13_ProductAndSearchFieldsFollowPageType ==
    IsPageView =>
        /\ \A f \in {"product_id", "product_name", "product_category", "product_price"} :
              (rec[f] # None) <=> (rec.page_type = "product")
        /\ \A f \in {"search_query", "search_results_count"} :
              (rec[f] # None) <=> (rec.page_type = "search")

C13_Witness ==
    /\ IsPageView
    /\ rec.by = "generate_page_view"
    /\ rec.page_type = "search"
    /\ rec.search_query # None
    /\ rec.search_results_count = 0
    /\ rec.product_id = None

----------------------------------------------------------------------------
(* Entity pools of the data generator *)

RegisteredCustomerIds == { c.id : c \in SeqToSet(existing_customers) }

RegisteredSessionIds == { e.id : e \in SeqToSet(existing_sessions) }

ByDataGenerator ==
    rec.table # "none"
    /\ rec.by \in {"generate_customer", "generate_order", "generate_page_view",
                   "generate_shopping_cart"}

\* C14: a pick from a pool yields a registered entry: an order generated without
\* an explicit customer carries a registered customer id whenever the customer
\* pool is non-empty, and a page view's or cart's customer id that is not None
\* and a cart's session id taken from the pool are registered ones; with an
\* empty pool the order gets a fresh customer id, the page view no customer and
\* the cart a fresh session id, and each generator still returns a record.
C14_PicksAreRegisteredOrFallBack ==
    /\ (IsOrder /\ ByDataGenerator) =>
          IF existing_customers # << >>
          THEN rec.customer_id \in RegisteredCustomerIds
          ELSE rec.customer_id = AnyUuid
    /\ (IsPageView /\ ByDataGenerator) =>
          /\ rec.customer_id # None => rec.customer_id \in RegisteredCustomerIds
          /\ existing_customers = << >> => rec.customer_id = None
    /\ (IsCart /\ ByDataGenerator) =>
          /\ rec.customer_id # None => rec.customer_id \in RegisteredCustomerIds
          /\ IF existing_sessions # << >>
             THEN rec.session_id \in RegisteredSessionIds
             ELSE rec.session_id = AnyUuid /\ rec.session_id \notin RegisteredSessionIds
          /\ (existing_customers = << >> /\ existing_sessions = << >>) =>
                rec.customer_id = None
    /\ \A e \in SeqToSet(existing_sessions) :
          e.customer_id # None => e.customer_id \in RegisteredCustomerIds
    /\ AnyUuid \notin (RegisteredCustomerIds \cup RegisteredSessionIds)
    /\ rec.table = "none" =>
          /\ ENABLED GenerateOrder
          /\ ENABLED GenerateShoppingCart
          /\ Len(existing_sessions) < MaxPool => ENABLED GeneratePageView

C14_Witness ==
    /\ IsCart
    /\ ByDataGenerator
    /\ existing_customers # << >>
    /\ existing_sessions # << >>
    /\ rec.session_id \in RegisteredSessionIds
    /\ rec.customer_id \in RegisteredCustomerIds
    /\ \A e \in SeqToSet(existing_sessions) : e.customer_id = None

IsPrefix(p, q) == Len(p) <= Len(q) /\ SubSeq(q, 1, Len(p)) = p

C29_LoopReferencesRegisteredEntities ==
    iteration > 0 =>
        /\ existing_customers # << >>
        /\ existing_sessions # << >>
        /\ batch.table = "orders" =>
              /\ batch.customer_refs # {}
              /\ batch.customer_refs \subseteq RegisteredCustomerIds
        /\ batch.table = "shopping_cart" =>
              /\ batch.session_refs # {}
              /\ batch.session_refs \subseteq RegisteredSessionIds
              /\ batch.customer_refs \subseteq RegisteredCustomerIds

\* the carts are the first batch of the first iteration
C29_Witness ==
    /\ iteration = 1
    /\ run_pc = "insert"
    /\ batch.table = "shopping_cart"
    /\ Len(operations) = 3
    /\ batch.session_refs # {}

\* C23: generate_order and generate_shopping_cart only read the pools: a step
\* that generates an order or a cart leaves both pools unchanged, also when a
\* pool is empty and the identity is made up, which is then not registered;
\* generate_customer leaves the session pool and generate_page_view the
\* customer pool unchanged.
C23_OrderAndCartOnlyReadPools ==
    [][(rec.table = "none" /\ rec'.table # "none") =>
         /\ rec'.by \in {"generate_order", "generate_shopping_cart"} =>
               /\ existing_customers' = existing_customers
               /\ existing_sessions' = existing_sessions
         /\ (rec'.by = "generate_order" /\ existing_customers = << >>) =>
               rec'.customer_id \notin { c.id : c \in SeqToSet(existing_customers') }
         /\ (rec'.by = "generate_shopping_cart" /\ existing_sessions = << >>) =>
               rec'.session_id \notin { e.id : e \in SeqToSet(existing_sessions') }
         /\ rec'.by = "generate_customer" => existing_sessions' = existing_sessions
         /\ rec'.by = "generate_page_view" => existing_customers' = existing_customers]_vars

C23_Witness ==
    /\ IsCart
    /\ ByDataGenerator
    /\ existing_sessions = << >>
    /\ existing_customers # << >>
    /\ rec.session_id = AnyUuid
    /\ rec.customer_id \in RegisteredCustomerIds

----------------------------------------------------------------------------
(* Generated customers *)

IsCustomer == rec.table = "customers"

\* C16: for every generated customer of either generator, registration_date is
\* not later than last_login_date, and neither is later than the time of
\* generation.
C16_RegisteredBeforeLastLogin ==
    IsCustomer =>
        /\ rec.registration_date <= rec.last_login_date
        /\ rec.last_login_date <= TwoYears
        /\ rec.registration_date >= 0

C16_Witness ==
    /\ IsCustomer
    /\ rec.by = "generate_customer"
    /\ rec.registration_date = TwoYears \div 2
    /\ rec.last_login_date = TwoYears \div 2

----------------------------------------------------------------------------
(* Startup, failures and shutdown of both programs *)

\* C21: a failure to create the client is fatal in both programs: the process
\* has ended with a non-zero exit status, no step follows, no operation has
\* been dispatched and no statistic recorded (load generator), no record has
\* been generated or inserted (data generator); nothing runs without a client.
C21_StartupFailureIsFatal ==
    /\ pc = "fatal" =>
          /\ exit_code # None /\ exit_code # 0
          /\ ~client_open
          /\ dispatched = 0
          /\ total_ops = 0 /\ successful_ops = 0 /\ failed_ops = 0 /\ total_duration = 0
          /\ \A t \in OpTypes : op_stats[t] = ZeroStats
          /\ query_stats = << >>
          /\ events = << >>
          /\ ~ENABLED Next
    /\ (run_pc = "fatal" /\ run_client = "none") =>
          /\ run_exit # None /\ run_exit # 0
          /\ iteration = 0
          /\ batch = NoBatch
          /\ existing_customers = << >> /\ existing_sessions = << >>
          /\ ~ENABLED NextData
    /\ run_client = "none" => run_pc \in {"connect", "fatal"}
    /\ ~client_open => pc \in {"connect", "fatal", "done"}

C21_Witness ==
    /\ pc = "fatal"
    /\ exit_code = 1
    /\ run_pc = "fatal"
    /\ run_client = "none"
    /\ run_exit = 1

\* C27: once the connection is established, every way the process ends
\* (interrupt, an error while pre-populating, an error inside the loop) has
\* closed the connection exactly once.
C27_EveryEndClosesOnce ==
    (run_pc \in {"failed", "fatal", "stopped"} /\ run_client # "none") =>
        /\ run_client = "closed"
        /\ run_closes = 1

\* C28: in the continuous loop the first insert that fails ends the loop: the
\* remaining inserts of the iteration are not attempted and no step follows,
\* the connection has been closed once, the error leaves the process with a
\* non-zero status, and the pool entries registered for the records of the
\* failed batch are still in the pool.
C28_FailedInsertEndsLoop ==
    run_pc = "failed" =>
        /\ iteration > 0
        /\ batch # NoBatch
        /\ ~ENABLED NextData
        /\ run_client = "closed"
        /\ run_closes = 1
        /\ run_exit # None /\ run_exit # 0
        /\ batch.table = "customers" =>
              \A i \in 1..batch.count : (next_uuid - i) \in RegisteredCustomerIds
        /\ batch.table = "page_views" =>
              \A i \in 1..batch.count : (next_uuid - i) \in RegisteredSessionIds

C28_Witness ==
    /\ run_pc = "failed"
    /\ batch.table = "page_views"
    /\ operations # << >>
    /\ Len(existing_sessions) > 20

----------------------------------------------------------------------------
(* Update and delete mutations *)

\* C22: every update and delete statement carries a sampling term, a fraction
\* strictly between none and all of the rows, beside a predicate on the rows'
\* columns; the rows that a mutation changes or removes all match its
\* predicate, and rows that do not match it are left unchanged.
C22_MutationsChangeOnlyMatchingRows ==
    [][LET q == mutation'
       IN  /\ q.sample_pct \in 1..99
           /\ q.where_status # "any" \/ q.where_segment # "any" \/ q.older_than # None
           /\ \A i \in RowIds : rows'[i] # rows[i] => Matches(q, rows[i])
           /\ \A i \in RowIds : ~Matches(q, rows[i]) => rows'[i] = rows[i]]_vars

\* of two pending orders, one was confirmed by the update and one was not
C22_Witness ==
    /\ mutations = 1
    /\ mutation.name = "generate_update_order_status"
    /\ mutation.ok
    /\ mutation.where_status = "pending"
    /\ rows[1].status = "confirmed" /\ rows[1].updated_at = 0
    /\ rows[2].status = "pending" /\ rows[2].updated_at # 0

\* C30: an order-status update changes a row only from a lifecycle state to its
\* immediate successor (pending, confirmed, processing, shipped, delivered) and
\* never a cancelled, refunded or delivered row; a cart-status update changes
\* only active carts, to abandoned with cart_abandoned_at set to now().
C30_StatusUpdatesMoveForward ==
    [][LET q == mutation'
       IN  /\ q.name = "generate_update_order_status" =>
                \A i \in RowIds :
                   rows'[i] # rows[i] =>
                      /\ rows[i].table = "orders"
                      /\ rows[i].status \notin {"cancelled", "refunded", "delivered"}
                      /\ \E k \in 1..4 : /\ rows[i].status = ORDER_STATUSES[k]
                                         /\ rows'[i].status = ORDER_STATUSES[k + 1]
           /\ q.name = "generate_update_cart_status" =>
                \A i \in RowIds :
                   rows'[i] # rows[i] =>
                      /\ rows[i].table = "shopping_cart"
                      /\ rows[i].status = "active"
                      /\ rows'[i].status = "abandoned"
                      /\ rows'[i].cart_abandoned_at = 0]_vars

\* a shipped order was delivered by the update, a cancelled one left as it was
C30_Witness ==
    /\ mutations = 1
    /\ mutation.name = "generate_update_order_status"
    /\ mutation.where_status = "shipped"
    /\ rows[1].status = "delivered" /\ rows[1].updated_at = 0
    /\ rows[2].status = "cancelled" /\ rows[2].updated_at # 0

====
